---- MODULE Spec2Model ----
(***************************************************************************)
(* Fill aggregation, net-cash resolution and duplicate handling of the     *)
(* trade journal backend (backend/app/services/aggregation.py and          *)
(* backend/app/services/ibkr_importer.py, backend/app/api/routes/          *)
(* imports.py).                                                            *)
(*                                                                         *)
(* Conventions of the translation:                                         *)
(*  - Python's None is the empty sequence << >>, a present value v is      *)
(*    <<v>> (None / Some / Val below).                                     *)
(*  - Money and quantities are integers; quotients (unit amounts, average  *)
(*    prices) are exact fractions [n, d] in lowest terms, so binary        *)
(*    floating point rounding is not modelled.                             *)
(*  - Python list positions are 0-based; here fill indexes and trade       *)
(*    positions are 1-based.                                               *)
(*  - asset_type and currency are copied through by the code and never     *)
(*    read by it; they are left out of the records.                        *)
(***************************************************************************)
EXTENDS Integers, Sequences, FiniteSets, TLC

VARIABLES
    fills,            \* the argument of aggregate_parent_trades
    ordered_fills,    \* aggregation.py:58, the fill indexes in processing order
    cursor,           \* how many entries of ordered_fills the loop has processed
    state_by_asset,   \* aggregation.py:62, in dict insertion order
    parent_trades,    \* aggregation.py:60
    fill_to_parent,   \* aggregation.py:61
    pc,               \* "loop" (lines 64-169), "final" (171-201), "done" (203)
    store,            \* the persisted rows: parents, fills, batches
    request,          \* the arguments of the last create_import call
    response,         \* the HTTP response of the last create_import call
    import_run,       \* import_ibkr_csv at its exit: raised, session, locals
    sessions          \* two create_import calls under way at once, each with
                      \* its own database session (api/deps.py)

vars == <<fills, ordered_fills, cursor, state_by_asset, parent_trades,
          fill_to_parent, pc, store, request, response, import_run, sessions>>

aggVars == <<fills, ordered_fills, cursor, state_by_asset, parent_trades,
             fill_to_parent, pc>>

importVars == <<store, request, response, import_run>>

-----------------------------------------------------------------------------
(* Bounds and input domains *)

MaxFills == 3

Assets == {"X", "Y"}

Times == {1, 2}

Quantities == {1, 2}

None == << >>

Some(v) == <<v>>

Val(o) == o[1]

Abs(x) == IF x < 0 THEN -x ELSE x

Max(a, b) == IF a > b THEN a ELSE b

RECURSIVE GCD(_, _)
GCD(a, b) == IF b = 0 THEN a ELSE GCD(b, a % b)

\* The exact quotient n / d (d > 0) in lowest terms.
Frac(n, d) == LET g == GCD(Abs(n), d) IN [n |-> n \div g, d |-> d \div g]

FracAdd(a, b) == Frac(a.n * b.d + b.n * a.d, a.d * b.d)

FracScale(k, a) == Frac(k * a.n, a.d)

FracDiv(a, k) == Frac(a.n, a.d * k)

Zero == Frac(0, 1)

-----------------------------------------------------------------------------
(* NormalizedFill values *)

Fill(asset, time, side, qty, price, commission, multiplier, proceeds, net_cash, source) ==
    [asset_code |-> asset, trade_time |-> time, side |-> side, quantity |-> qty,
     price |-> price, commission |-> commission, multiplier |-> multiplier,
     proceeds |-> proceeds, net_cash |-> net_cash, source |-> source]

\* Fills that differ in instrument, side, quantity and time; buys at 100 and
\* sells at 110, commission 1, no broker-reported amounts.
PositionPool ==
    { Fill(a, t, s, q, IF s = "BUY" THEN 100 ELSE 110, 1, 1, None, None, None) :
        a \in Assets, t \in Times, s \in {"BUY", "SELL"}, q \in Quantities }

\* price, commission, multiplier, proceeds, net_cash
MoneyProfiles ==
    { <<100, 1, 1, None, None>>,
      <<110, 1, 2, None, None>>,
      <<110, 0, 1, Some(250), Some(-150)>>,
      <<100, 1, 1, None, Some(0)>> }

\* Fills of one instrument that differ in side, quantity and money fields.
MoneyPool ==
    { Fill("X", 1, s, q, m[1], m[2], m[3], m[4], m[5], None) :
        s \in {"BUY", "SELL"}, q \in Quantities, m \in MoneyProfiles }

SeqsUpTo(S, n) == UNION { [1..k -> S] : k \in 0..n }

FillInputs == SeqsUpTo(PositionPool, MaxFills) \cup SeqsUpTo(MoneyPool, MaxFills)

-----------------------------------------------------------------------------
(* aggregation.py *)

\* resolve_net_cash testing the value's truth (`if fill.net_cash:`), so that a
\* reported 0 counts as absent.
resolve_net_cash_truthy(fill) ==
    IF fill.net_cash # None /\ Val(fill.net_cash) # 0
    THEN Val(fill.net_cash)
    ELSE LET transaction_amount == fill.price * fill.quantity * fill.multiplier
             signed_amount == IF fill.side = "SELL" THEN transaction_amount
                                                    ELSE -transaction_amount
         IN signed_amount - fill.commission

\* resolve_net_cash signing the commission with the amount, so that a
\* purchase's commission raises its net cash.
resolve_net_cash_fee_signed(fill) ==
    IF fill.net_cash # None
    THEN Val(fill.net_cash)
    ELSE LET transaction_amount == fill.price * fill.quantity * fill.multiplier
         IN IF fill.side = "SELL" THEN transaction_amount - fill.commission
                                  ELSE -(transaction_amount - fill.commission)

resolve_net_cash(fill) ==
    IF fill.net_cash # None
    THEN Val(fill.net_cash)
    ELSE LET transaction_amount == fill.price * fill.quantity * fill.multiplier
             signed_amount == IF fill.side = "SELL" THEN transaction_amount
                                                    ELSE -transaction_amount
         IN signed_amount - fill.commission

\* SortedPrefix placing an index before the indexes of equal time (a sort
\* that is not stable).
RECURSIVE SortedPrefixTiesFirst(_, _)
SortedPrefixTiesFirst(fs, k) ==
    IF k = 0 THEN << >>
    ELSE LET before == SortedPrefixTiesFirst(fs, k - 1)
             keep == { p \in 1..Len(before) :
                         fs[before[p]].trade_time < fs[k].trade_time }
             at == Cardinality(keep)
         IN SubSeq(before, 1, at) \o <<k>> \o SubSeq(before, at + 1, Len(before))

\* sorted(enumerate(fills), key=trade_time): a stable sort, here by insertion
\* of each index after every index whose time is not later.
RECURSIVE SortedPrefix(_, _)
SortedPrefix(fs, k) ==
    IF k = 0 THEN << >>
    ELSE LET before == SortedPrefix(fs, k - 1)
             keep == { p \in 1..Len(before) :
                         fs[before[p]].trade_time <= fs[k].trade_time }
             at == Cardinality(keep)
         IN SubSeq(before, 1, at) \o <<k>> \o SubSeq(before, at + 1, Len(before))

SortFills(fs) == SortedPrefix(fs, Len(fs))

signed_qty(fill) == IF fill.side = "BUY" THEN fill.quantity ELSE -fill.quantity

\* Position of the instrument's entry in the state dict, 0 when absent.
StateIndex(sba, code) ==
    IF \E p \in 1..Len(sba) : sba[p].asset_code = code
    THEN CHOOSE p \in 1..Len(sba) : sba[p].asset_code = code
    ELSE 0

\* NewState taking the direction from the fill's unsigned quantity.
NewStateUnsignedDirection(fill) ==
    [direction |-> IF fill.quantity > 0 THEN "long" ELSE "short",
     asset_code |-> fill.asset_code,
     position |-> 0,
     open_time |-> fill.trade_time,
     fills |-> << >>,
     open_sum_qty |-> 0,
     open_sum_amount |-> Zero,
     close_sum_qty |-> 0,
     close_sum_amount |-> Zero,
     total_commission |-> 0,
     net_cash_total |-> 0,
     max_abs_position |-> 0,
     multiplier |-> fill.multiplier]

NewState(fill) ==
    [direction |-> IF signed_qty(fill) > 0 THEN "long" ELSE "short",
     asset_code |-> fill.asset_code,
     position |-> 0,
     open_time |-> fill.trade_time,
     fills |-> << >>,
     open_sum_qty |-> 0,
     open_sum_amount |-> Zero,
     close_sum_qty |-> 0,
     close_sum_amount |-> Zero,
     total_commission |-> 0,
     net_cash_total |-> 0,
     max_abs_position |-> 0,
     multiplier |-> fill.multiplier]

\* open_qty with the comparison of the same-side branch the wrong way round:
\* a fill that shrinks the position counts as opening.
open_qty_shrinking(position_before, position_after) ==
    IF position_before = 0 THEN Abs(position_after - position_before)
    ELSE IF position_before * position_after >= 0
         THEN IF Abs(position_after) < Abs(position_before)
              THEN Abs(position_before) - Abs(position_after)
              ELSE 0
         ELSE Abs(position_after)

open_qty(position_before, position_after) ==
    IF position_before = 0 THEN Abs(position_after - position_before)
    ELSE IF position_before * position_after >= 0
         THEN IF Abs(position_after) > Abs(position_before)
              THEN Abs(position_after) - Abs(position_before)
              ELSE 0
         ELSE Abs(position_after)

\* close_qty counting the whole fill as closing when it crosses zero.
close_qty_whole_fill(position_before, position_after) ==
    IF position_before = 0 THEN 0
    ELSE IF position_before * position_after >= 0
         THEN IF Abs(position_after) < Abs(position_before)
              THEN Abs(position_before) - Abs(position_after)
              ELSE 0
         ELSE Abs(position_after - position_before)

close_qty(position_before, position_after) ==
    IF position_before = 0 THEN 0
    ELSE IF position_before * position_after >= 0
         THEN IF Abs(position_after) < Abs(position_before)
              THEN Abs(position_before) - Abs(position_after)
              ELSE 0
         ELSE Abs(position_before)

unit_amount(fill) ==
    IF fill.proceeds # None
    THEN IF fill.quantity > 0 THEN Frac(Abs(Val(fill.proceeds)), fill.quantity) ELSE Zero
    ELSE Frac(fill.price * fill.multiplier, 1)

\* average_price falling back to 0.0 instead of None when nothing was
\* accumulated on that side.
average_price_or_zero(sum_amount, sum_qty, multiplier) ==
    IF sum_qty > 0 THEN Some(FracDiv(sum_amount, sum_qty * multiplier)) ELSE Some(Zero)

\* Lines 138-147 and 173-182: sum_amount / (sum_qty * multiplier), or None.
average_price(sum_amount, sum_qty, multiplier) ==
    IF sum_qty > 0 THEN Some(FracDiv(sum_amount, sum_qty * multiplier)) ELSE None

\* Accumulate adding the signed transaction amount to net_cash_total instead
\* of the resolved net cash.
AccumulateGrossCash(state, index, fill) ==
    LET position_before == state.position
        position_after == position_before + signed_qty(fill)
        oq == open_qty(position_before, position_after)
        cq == close_qty(position_before, position_after)
        amount == fill.price * fill.quantity * fill.multiplier
    IN [state EXCEPT
          !.fills = Append(@, index),
          !.open_sum_qty = IF oq > 0 THEN @ + oq ELSE @,
          !.open_sum_amount = IF oq > 0 THEN FracAdd(@, FracScale(oq, unit_amount(fill))) ELSE @,
          !.close_sum_qty = IF cq > 0 THEN @ + cq ELSE @,
          !.close_sum_amount = IF cq > 0 THEN FracAdd(@, FracScale(cq, unit_amount(fill))) ELSE @,
          !.net_cash_total = @ + (IF fill.side = "SELL" THEN amount ELSE -amount),
          !.total_commission = @ + fill.commission,
          !.position = position_after,
          !.max_abs_position = Max(@, Abs(position_after))]

\* Accumulate re-deriving the direction from the sign of the position after
\* each fill.
AccumulateDirectionBySign(state, index, fill) ==
    LET position_before == state.position
        position_after == position_before + signed_qty(fill)
        oq == open_qty(position_before, position_after)
        cq == close_qty(position_before, position_after)
    IN [state EXCEPT
          !.direction = IF position_after > 0 THEN "long"
                        ELSE IF position_after < 0 THEN "short" ELSE @,
          !.fills = Append(@, index),
          !.open_sum_qty = IF oq > 0 THEN @ + oq ELSE @,
          !.open_sum_amount = IF oq > 0 THEN FracAdd(@, FracScale(oq, unit_amount(fill))) ELSE @,
          !.close_sum_qty = IF cq > 0 THEN @ + cq ELSE @,
          !.close_sum_amount = IF cq > 0 THEN FracAdd(@, FracScale(cq, unit_amount(fill))) ELSE @,
          !.net_cash_total = @ + resolve_net_cash(fill),
          !.total_commission = @ + fill.commission,
          !.position = position_after,
          !.max_abs_position = Max(@, Abs(position_after))]

\* Accumulate recording the absolute position after the fill instead of the
\* largest one seen.
AccumulateLastPosition(state, index, fill) ==
    LET position_before == state.position
        position_after == position_before + signed_qty(fill)
        oq == open_qty(position_before, position_after)
        cq == close_qty(position_before, position_after)
    IN [state EXCEPT
          !.fills = Append(@, index),
          !.open_sum_qty = IF oq > 0 THEN @ + oq ELSE @,
          !.open_sum_amount = IF oq > 0 THEN FracAdd(@, FracScale(oq, unit_amount(fill))) ELSE @,
          !.close_sum_qty = IF cq > 0 THEN @ + cq ELSE @,
          !.close_sum_amount = IF cq > 0 THEN FracAdd(@, FracScale(cq, unit_amount(fill))) ELSE @,
          !.net_cash_total = @ + resolve_net_cash(fill),
          !.total_commission = @ + fill.commission,
          !.position = position_after,
          !.max_abs_position = Abs(position_after)]

\* Lines 89-135: the state after the fill is accounted for.
Accumulate(state, index, fill) ==
    LET position_before == state.position
        position_after == position_before + signed_qty(fill)
        oq == open_qty(position_before, position_after)
        cq == close_qty(position_before, position_after)
    IN [state EXCEPT
          !.fills = Append(@, index),
          !.open_sum_qty = IF oq > 0 THEN @ + oq ELSE @,
          !.open_sum_amount = IF oq > 0 THEN FracAdd(@, FracScale(oq, unit_amount(fill))) ELSE @,
          !.close_sum_qty = IF cq > 0 THEN @ + cq ELSE @,
          !.close_sum_amount = IF cq > 0 THEN FracAdd(@, FracScale(cq, unit_amount(fill))) ELSE @,
          !.net_cash_total = @ + resolve_net_cash(fill),
          !.total_commission = @ + fill.commission,
          !.position = position_after,
          !.max_abs_position = Max(@, Abs(position_after))]

\* ClosedTrade stamping the close with the leg's open time instead of the
\* closing fill's time.
ClosedTradeStaleTime(state, fill) ==
    [asset_code |-> state.asset_code,
     direction |-> state.direction,
     quantity |-> state.max_abs_position,
     open_time |-> state.open_time,
     close_time |-> Some(state.open_time),
     open_price |-> average_price(state.open_sum_amount, state.open_sum_qty, fill.multiplier),
     close_price |-> average_price(state.close_sum_amount, state.close_sum_qty, fill.multiplier),
     total_commission |-> state.total_commission,
     profit_loss |-> state.net_cash_total,
     fill_indexes |-> state.fills]

\* Lines 138-164: the trade emitted when the position is back at zero.
ClosedTrade(state, fill) ==
    [asset_code |-> state.asset_code,
     direction |-> state.direction,
     quantity |-> state.max_abs_position,
     open_time |-> state.open_time,
     close_time |-> Some(fill.trade_time),
     open_price |-> average_price(state.open_sum_amount, state.open_sum_qty, fill.multiplier),
     close_price |-> average_price(state.close_sum_amount, state.close_sum_qty, fill.multiplier),
     total_commission |-> state.total_commission,
     profit_loss |-> state.net_cash_total,
     fill_indexes |-> state.fills]

\* Lines 172-199: the trade emitted for a state left over at the end.
OpenTrade(state) ==
    [asset_code |-> state.asset_code,
     direction |-> state.direction,
     quantity |-> IF state.max_abs_position # 0 THEN state.max_abs_position
                                                 ELSE Abs(state.position),
     open_time |-> state.open_time,
     close_time |-> None,
     open_price |-> average_price(state.open_sum_amount, state.open_sum_qty, state.multiplier),
     close_price |-> average_price(state.close_sum_amount, state.close_sum_qty, state.multiplier),
     total_commission |-> state.total_commission,
     profit_loss |-> state.net_cash_total,
     fill_indexes |-> state.fills]

\* MapFills recording only the fill that ended the leg.
MapFillsLastOnly(ftp, indexes, parent_index) ==
    [k \in DOMAIN ftp \cup { indexes[Len(indexes)] } |->
        IF indexes[Len(indexes)] = k THEN parent_index ELSE ftp[k]]

\* Lines 165-166 and 200-201: fill_to_parent[fill_index] = parent_index.
MapFills(ftp, indexes, parent_index) ==
    [k \in DOMAIN ftp \cup { indexes[p] : p \in 1..Len(indexes) } |->
        IF \E p \in 1..Len(indexes) : indexes[p] = k THEN parent_index ELSE ftp[k]]

\* RemoveAt leaving the entry in place (the pop of line 167 forgotten).
RemoveNothing(s, p) == s

RemoveAt(s, p) == SubSeq(s, 1, p - 1) \o SubSeq(s, p + 1, Len(s))

\* One iteration of the loop of lines 64-169, on the aggregation record
\* agg = [state_by_asset, parent_trades, fill_to_parent].
ProcessFill(fs, agg, index) ==
    LET fill == fs[index]
        found == StateIndex(agg.state_by_asset, fill.asset_code)
        fresh == found = 0 \/ agg.state_by_asset[found].position = 0
        \* line 87: assigning an existing key keeps its place in the dict
        sba == IF ~fresh THEN agg.state_by_asset
               ELSE IF found = 0 THEN Append(agg.state_by_asset, NewState(fill))
               ELSE [agg.state_by_asset EXCEPT ![found] = NewState(fill)]
        at == StateIndex(sba, fill.asset_code)
        state == Accumulate(sba[at], index, fill)
    IN IF state.position = 0
       THEN [state_by_asset |-> RemoveAt(sba, at),
             parent_trades |-> Append(agg.parent_trades, ClosedTrade(state, fill)),
             fill_to_parent |-> MapFills(agg.fill_to_parent, state.fills,
                                         Len(agg.parent_trades) + 1)]
       ELSE [state_by_asset |-> [sba EXCEPT ![at] = state],
             parent_trades |-> agg.parent_trades,
             fill_to_parent |-> agg.fill_to_parent]

\* Lines 171-201: one still-open trade per remaining state, in dict order.
RECURSIVE FinalizeFrom(_, _)
FinalizeFrom(agg, p) ==
    IF p > Len(agg.state_by_asset) THEN agg
    ELSE LET state == agg.state_by_asset[p]
         IN FinalizeFrom(
              [agg EXCEPT
                 !.parent_trades = Append(@, OpenTrade(state)),
                 !.fill_to_parent = MapFills(@, state.fills, Len(agg.parent_trades) + 1)],
              p + 1)

EmptyAggregation ==
    [state_by_asset |-> << >>, parent_trades |-> << >>, fill_to_parent |-> << >>]

RECURSIVE LoopFrom(_, _, _, _)
LoopFrom(fs, order, agg, p) ==
    IF p > Len(order) THEN agg
    ELSE LoopFrom(fs, order, ProcessFill(fs, agg, order[p]), p + 1)

\* aggregate_parent_trades as a function: the record of its two results.
aggregate_parent_trades(fs) ==
    LET agg == FinalizeFrom(LoopFrom(fs, SortFills(fs), EmptyAggregation, 1), 1)
    IN [parent_trades |-> agg.parent_trades, fill_to_parent |-> agg.fill_to_parent]

-----------------------------------------------------------------------------
(* The aggregation run, one loop iteration per step *)

AggInit ==
    /\ fills \in FillInputs
    /\ ordered_fills = SortFills(fills)
    /\ cursor = 0
    /\ state_by_asset = << >>
    /\ parent_trades = << >>
    /\ fill_to_parent = << >>
    /\ pc = "loop"

Current == [state_by_asset |-> state_by_asset, parent_trades |-> parent_trades,
            fill_to_parent |-> fill_to_parent]

Step ==
    /\ pc = "loop"
    /\ cursor < Len(ordered_fills)
    /\ LET next == ProcessFill(fills, Current, ordered_fills[cursor + 1])
       IN /\ state_by_asset' = next.state_by_asset
          /\ parent_trades' = next.parent_trades
          /\ fill_to_parent' = next.fill_to_parent
    /\ cursor' = cursor + 1
    /\ UNCHANGED <<fills, ordered_fills, pc>>

LoopExit ==
    /\ pc = "loop"
    /\ cursor = Len(ordered_fills)
    /\ pc' = "final"
    /\ UNCHANGED <<fills, ordered_fills, cursor, state_by_asset, parent_trades,
                   fill_to_parent>>

Finalize ==
    /\ pc = "final"
    /\ LET next == FinalizeFrom(Current, 1)
       IN /\ parent_trades' = next.parent_trades
          /\ fill_to_parent' = next.fill_to_parent
    /\ pc' = "done"
    /\ UNCHANGED <<fills, ordered_fills, cursor, state_by_asset>>

-----------------------------------------------------------------------------
(* The persisted store and ibkr_importer.py *)

MaxHistory == 2

MaxBatch == 2

\* (TradeID, trade_time) of the executions a CSV may carry
ImportKeys == { <<Some("a"), 1>>, <<Some("a"), 2>>, <<None, 1>> }

\* Fills as _normalize_row produces them: stock X, quantity 1, multiplier 1,
\* NetCash always present, no Proceeds column.
ImportPool ==
    { Fill("X", k[2], s, 1, IF s = "BUY" THEN 100 ELSE 110, 1, 1, None,
           Some(IF s = "BUY" THEN -101 ELSE 109), k[1]) :
        k \in ImportKeys, s \in {"BUY", "SELL"} }

EmptyStore == [assets |-> {}, parents |-> {}, fills |-> {}, batches |-> {}]

NextId(rows) == IF rows = {} THEN 1 ELSE 1 + CHOOSE i \in { r.id : r \in rows } :
                                              \A r \in rows : r.id <= i

RECURSIVE ById(_)
\* The rows in ascending id order
ById(rows) ==
    IF rows = {} THEN << >>
    ELSE LET first == CHOOSE r \in rows : \A o \in rows : r.id <= o.id
         IN <<first>> \o ById(rows \ {first})

\* `if fill.source:`
Truthy(source) == source # None /\ Val(source) # ""

\* check_duplicate_trades matching on the TradeID alone, whatever the time
check_duplicate_trades_by_source(session, fs) ==
    { i \in 1..Len(fs) :
        /\ Truthy(fs[i].source)
        /\ \E f \in session.fills : f.source = fs[i].source }

check_duplicate_trades(session, fs) ==
    LET sources == { fs[i].source : i \in { i \in 1..Len(fs) : Truthy(fs[i].source) } }
        existing_sources_result ==
            { <<f.source, f.trade_time>> : f \in { f \in session.fills : f.source \in sources } }
        known_times(source) ==
            { e[2] : e \in { e \in existing_sources_result : e[1] # None /\ e[1] = source } }
    IN IF sources = {} THEN {}
       ELSE { i \in 1..Len(fs) :
                /\ Truthy(fs[i].source)
                /\ known_times(fs[i].source) # {}
                /\ fs[i].trade_time \in known_times(fs[i].source) }

\* session.delete(parent) with the cascade of ParentTrade.fills
remove_existing_duplicate_trades(session, duplicate_fills) ==
    LET keys == { <<f.source, f.trade_time>> : f \in { f \in duplicate_fills : Truthy(f.source) } }
        existing_fills == { f \in session.fills : <<f.source, f.trade_time>> \in keys }
        parent_ids == { Val(f.parent_trade_id) :
                          f \in { f \in existing_fills : f.parent_trade_id # None } }
    IN IF keys = {} \/ existing_fills = {} THEN session
       ELSE IF parent_ids # {}
            THEN [session EXCEPT
                    !.parents = { q \in @ : q.id \notin parent_ids },
                    !.fills = { f \in @ : f.parent_trade_id = None
                                          \/ Val(f.parent_trade_id) \notin parent_ids }]
            ELSE [session EXCEPT !.fills = @ \ existing_fills]

\* Every symbol of the pool is a stock
infer_multiplier(symbol) == 1

\* Lines 338-361: the fills of one open parent, by trade time, as records
ExistingRecords(session, parent) ==
    LET rows == ById({ f \in session.fills : f.parent_trade_id = Some(parent.id) })
        order == SortFills(rows)
    IN [p \in 1..Len(order) |->
          LET existing_fill == rows[order[p]]
          IN [normalized |-> Fill(parent.asset_code, existing_fill.trade_time,
                                  existing_fill.side, existing_fill.quantity,
                                  existing_fill.price, existing_fill.commission,
                                  infer_multiplier(parent.asset_code), None,
                                  existing_fill.net_cash, existing_fill.source),
              kind |-> "existing",
              existing_fill |-> Some(existing_fill)]]

RECURSIVE ConcatExisting(_, _, _)
ConcatExisting(session, parents, p) ==
    IF p > Len(parents) THEN << >>
    ELSE ExistingRecords(session, parents[p]) \o ConcatExisting(session, parents, p + 1)

\* Lines 321-363
CombinedRecords(session, unique_fills) ==
    LET asset_codes == { unique_fills[i].asset_code : i \in 1..Len(unique_fills) }
        existing_parents == ById({ q \in session.parents :
                                     q.asset_code \in asset_codes /\ q.close_time = None })
    IN ConcatExisting(session, existing_parents, 1)
       \o [i \in 1..Len(unique_fills) |->
             [normalized |-> unique_fills[i], kind |-> "new", existing_fill |-> None]]

\* Mapped attributes of the ImportBatch model class
ImportBatchColumns ==
    {"id", "broker", "filename", "status", "error_message", "total_records",
     "created_at", "completed_at", "timezone", "fills"}

\* The declarative constructor: a keyword that names no attribute of the
\* class raises TypeError (None here), otherwise the new row.
ImportBatch(kwargs) ==
    IF DOMAIN kwargs \subseteq ImportBatchColumns THEN Some(kwargs) ELSE None

ParentRow(id, t) ==
    [id |-> id, asset_code |-> t.asset_code, direction |-> t.direction,
     quantity |-> t.quantity, open_time |-> t.open_time, close_time |-> t.close_time,
     open_price |-> t.open_price, close_price |-> t.close_price,
     total_commission |-> t.total_commission, profit_loss |-> t.profit_loss]

FillRow(id, parent_id, batch_id, fill) ==
    [id |-> id, parent_trade_id |-> Some(parent_id), asset_code |-> fill.asset_code,
     side |-> fill.side, quantity |-> fill.quantity, price |-> fill.price,
     commission |-> fill.commission, trade_time |-> fill.trade_time,
     source |-> fill.source, import_batch_id |-> batch_id,
     net_cash |-> Some(resolve_net_cash(fill))]

RECURSIVE PersistTrades(_, _, _, _)
\* Lines 406-457 from the j-th aggregated trade on; acc holds the session,
\* fill_parent_lookup (as parent ids) and what was raised.
PersistTrades(combined_records, aggregated_trades, acc, j) ==
    IF j > Len(aggregated_trades) \/ acc.raised # "none" THEN acc
    ELSE LET aggregated_trade == aggregated_trades[j]
             indexes == aggregated_trade.fill_indexes
             existing_parent_ids ==
                 { Val(combined_records[indexes[p]].existing_fill[1].parent_trade_id) :
                     p \in { p \in 1..Len(indexes) :
                               /\ combined_records[indexes[p]].kind = "existing"
                               /\ combined_records[indexes[p]].existing_fill # None
                               /\ combined_records[indexes[p]].existing_fill[1].parent_trade_id # None } }
             parent_id == IF existing_parent_ids # {}
                          THEN CHOOSE i \in existing_parent_ids : TRUE
                          ELSE NextId(acc.session.parents)
             lookup == [k \in DOMAIN acc.lookup \cup { indexes[p] : p \in 1..Len(indexes) } |->
                          IF \E p \in 1..Len(indexes) : indexes[p] = k THEN parent_id
                          ELSE acc.lookup[k]]
         IN IF Cardinality(existing_parent_ids) > 1
            THEN [acc EXCEPT !.raised = "ImportValidationError"]
            ELSE IF existing_parent_ids # {}
            THEN IF parent_id \notin acc.existing_parent_map
                 THEN [acc EXCEPT !.raised = "ImportValidationError"]
                 ELSE PersistTrades(combined_records, aggregated_trades,
                        [acc EXCEPT
                           !.session.parents =
                               { q \in @ : q.id # parent_id }
                               \cup { ParentRow(parent_id, aggregated_trade) },
                           !.lookup = lookup],
                        j + 1)
            ELSE PersistTrades(combined_records, aggregated_trades,
                   [acc EXCEPT
                      !.session.assets = @ \cup { aggregated_trade.asset_code },
                      !.session.parents = @ \cup { ParentRow(parent_id, aggregated_trade) },
                      !.lookup = lookup],
                   j + 1)

RECURSIVE PersistFills(_, _, _, _)
\* Lines 462-486 from the i-th combined record on
PersistFills(combined_records, batch_id, acc, i) ==
    IF i > Len(combined_records) \/ acc.raised # "none" THEN acc
    ELSE IF combined_records[i].kind = "existing"
         THEN PersistFills(combined_records, batch_id, acc, i + 1)
         ELSE IF i \notin DOMAIN acc.lookup
              THEN [acc EXCEPT !.raised = "ImportValidationError"]
              ELSE PersistFills(combined_records, batch_id,
                     [acc EXCEPT
                        !.session.assets = @ \cup { combined_records[i].normalized.asset_code },
                        !.session.fills = @ \cup
                            { FillRow(NextId(acc.session.fills), acc.lookup[i], batch_id,
                                      combined_records[i].normalized) }],
                     i + 1)

\* Lines 376-491, once the batch row exists: the session after it and what
\* was raised.
Persist(session, batch, combined_records, aggregated_trades) ==
    LET batch_id == NextId(session.batches)
        pending == [session EXCEPT
                      !.batches = @ \cup { [id |-> batch_id, status |-> batch.status,
                                              total_records |-> batch.total_records] }]
        existing_parent_map ==
            { combined_records[i].existing_fill[1].parent_trade_id[1] :
                i \in { i \in 1..Len(combined_records) : combined_records[i].kind = "existing" } }
        trades == PersistTrades(combined_records, aggregated_trades,
                                [session |-> pending, lookup |-> << >>, raised |-> "none",
                                 existing_parent_map |-> existing_parent_map], 1)
        done == PersistFills(combined_records, batch_id, trades, 1)
    IN IF done.raised # "none" THEN [raised |-> done.raised, session |-> done.session]
       ELSE [raised |-> "none",
             session |-> [done.session EXCEPT
                            !.batches = { IF b.id = batch_id
                                          THEN [b EXCEPT !.status = "completed"] ELSE b :
                                          b \in @ }]]

\* import_ibkr_csv from line 302 on (the rows are parsed): what it raised,
\* the session it leaves, and its locals.
import_ibkr_csv(session, fs, override_duplicates) ==
    LET duplicate_indexes == check_duplicate_trades(session, fs)
        overriding == duplicate_indexes # {} /\ override_duplicates
        removed == IF overriding
                   THEN remove_existing_duplicate_trades(session,
                            { fs[i] : i \in duplicate_indexes })
                   ELSE session
        unique_fills == IF overriding THEN fs
                        ELSE LET kept == { i \in 1..Len(fs) : i \notin duplicate_indexes }
                                 nth(p) == CHOOSE i \in kept :
                                             Cardinality({ o \in kept : o < i }) = p - 1
                             IN [p \in 1..Cardinality(kept) |-> fs[nth(p)]]
        skipped_count == IF overriding THEN 0 ELSE Cardinality(duplicate_indexes)
        combined_records == CombinedRecords(removed, unique_fills)
        aggregated_trades ==
            aggregate_parent_trades(
                [i \in 1..Len(combined_records) |-> combined_records[i].normalized]).parent_trades
        batch == ImportBatch([broker |-> "ibkr", filename |-> "upload.csv",
                              status |-> "pending", total_records |-> Len(unique_fills),
                              skipped_records |-> skipped_count, timezone |-> "UTC"])
        locals == [duplicate_indexes |-> duplicate_indexes, unique_fills |-> unique_fills,
                   skipped_count |-> skipped_count]
        early(raised, count) ==
            [raised |-> raised, duplicate_count |-> count, session |-> session,
             locals |-> locals, combined_records |-> << >>, aggregated_trades |-> << >>]
    IN IF Len(fs) = 0 THEN early("ImportValidationError", 0)
       ELSE IF ~overriding /\ Len(unique_fills) = 0
            THEN early("DuplicateTradeError", skipped_count)
       ELSE LET late(raised, after) ==
                    [raised |-> raised, duplicate_count |-> 0, session |-> after,
                     locals |-> locals, combined_records |-> combined_records,
                     aggregated_trades |-> aggregated_trades]
            IN IF batch = None THEN late("TypeError", removed)
               ELSE LET written == Persist(removed, Val(batch), combined_records,
                                           aggregated_trades)
                    IN late(written.raised, written.session)

\* Respond with the ImportValidationError clause first: DuplicateTradeError is
\* a subclass of it and would be answered as a validation failure.
RespondValidationFirst(result) ==
    IF result.raised = "none"
    THEN [status_code |-> 201, code |-> "created", duplicates |-> 0]
    ELSE IF result.raised \in {"ImportValidationError", "DuplicateTradeError"}
    THEN [status_code |-> 400, code |-> "validation_error", duplicates |-> 0]
    ELSE [status_code |-> 500, code |-> "internal_error", duplicates |-> 0]

\* routes/imports.py create_import, lines 46-65: the HTTP response
Respond(result) ==
    IF result.raised = "none"
    THEN [status_code |-> 201, code |-> "created", duplicates |-> 0]
    ELSE IF result.raised = "DuplicateTradeError"
    THEN [status_code |-> 409, code |-> "duplicates_only",
          duplicates |-> result.duplicate_count]
    ELSE IF result.raised = "ImportValidationError"
    THEN [status_code |-> 400, code |-> "validation_error", duplicates |-> 0]
    ELSE [status_code |-> 500, code |-> "internal_error", duplicates |-> 0]

\* The rows an import of the fills fs into an empty store writes when the
\* batch row can be built.
StoreOf(fs) ==
    LET combined_records == CombinedRecords(EmptyStore, fs)
    IN Persist(EmptyStore,
               [status |-> "pending", total_records |-> Len(fs)],
               combined_records,
               aggregate_parent_trades(fs).parent_trades).session

\* The rows of st renumbered to follow the rows of base
Renumbered(base, st) ==
    LET parent_shift == NextId(base.parents) - 1
        fill_shift == NextId(base.fills) - 1
        batch_shift == NextId(base.batches) - 1
    IN [assets |-> st.assets,
        parents |-> { [q EXCEPT !.id = @ + parent_shift] : q \in st.parents },
        fills |-> { [f EXCEPT !.id = @ + fill_shift,
                              !.parent_trade_id = Some(Val(@) + parent_shift),
                              !.import_batch_id = @ + batch_shift] : f \in st.fills },
        batches |-> { [b EXCEPT !.id = @ + batch_shift] : b \in st.batches }]

\* The rows two uploads leave when each request, in its own session, read the
\* empty store before the other committed (READ COMMITTED on the default
\* PostgreSQL database): neither saw the other's open parent.
StoreOfConcurrent(h1, h2) ==
    LET first == StoreOf(h1)
        second == Renumbered(first, StoreOf(h2))
    IN [assets |-> first.assets \cup second.assets,
        parents |-> first.parents \cup second.parents,
        fills |-> first.fills \cup second.fills,
        batches |-> first.batches \cup second.batches]

\* A store holds the rows of an earlier upload (the database outlives the
\* deployed code, db/migrations.py), of two concurrent single-row uploads,
\* or nothing.
ImportInit ==
    /\ store \in { StoreOf(h) : h \in SeqsUpTo(ImportPool, MaxHistory) \ {<< >>} }
                  \cup { StoreOfConcurrent(<<f>>, <<g>>) : f \in ImportPool, g \in ImportPool }
                  \cup {EmptyStore}
    /\ request = << >>
    /\ response = << >>
    /\ import_run = << >>

\* A client posts a file: its parsed rows and the override flag
Upload ==
    /\ request = << >>
    /\ \E fs \in SeqsUpTo(ImportPool, MaxBatch), override_duplicates \in BOOLEAN :
         request' = [fills |-> fs, override_duplicates |-> override_duplicates,
                     attempt |-> 1]
    /\ UNCHANGED <<store, response, import_run>>

\* The client posts the same file with the same flag once more
Retry ==
    /\ request # << >>
    /\ response # << >>
    /\ request.attempt = 1
    /\ request' = [request EXCEPT !.attempt = 2]
    /\ response' = << >>
    /\ import_run' = << >>
    /\ UNCHANGED store

\* create_import committing in a finally clause, so that what the session
\* holds when import_ibkr_csv raises is kept
CreateImportCommitAlways ==
    /\ request # << >>
    /\ response = << >>
    /\ LET result == import_ibkr_csv(store, request.fills, request.override_duplicates)
       IN /\ store' = result.session
          /\ response' = Respond(result)
          /\ import_run' = result
    /\ UNCHANGED request

\* create_import: commit when import_ibkr_csv returns, rollback when it raises
CreateImport ==
    /\ request # << >>
    /\ response = << >>
    /\ LET result == import_ibkr_csv(store, request.fills, request.override_duplicates)
       IN /\ store' = IF result.raised = "none" THEN result.session ELSE store
          /\ response' = Respond(result)
          /\ import_run' = result
    /\ UNCHANGED request

\* The client has its answer; the next upload can follow
Acknowledge ==
    /\ response # << >>
    /\ request' = << >>
    /\ response' = << >>
    /\ import_run' = << >>
    /\ UNCHANGED store

\* The fills are in non-decreasing time order
TimeOrdered(fs) ==
    \A i \in 1..Len(fs) : \A j \in (i + 1)..Len(fs) : fs[i].trade_time <= fs[j].trade_time

\* A client posts, in skip mode, the first part of a time-ordered sequence
\* of fills and keeps the rest for a second file
UploadFirstPart ==
    /\ request = << >>
    /\ \E first \in SeqsUpTo(ImportPool, MaxBatch), rest \in SeqsUpTo(ImportPool, MaxBatch) :
         /\ TimeOrdered(first \o rest)
         /\ request' = [fills |-> first, override_duplicates |-> FALSE, attempt |-> 1,
                         first |-> << >>, rest |-> rest]
    /\ UNCHANGED <<store, response, import_run>>

\* The first file is answered; the client posts the rest, in skip mode
UploadRest ==
    /\ request # << >>
    /\ response # << >>
    /\ request.attempt = 1
    /\ request' = [fills |-> request.rest, override_duplicates |-> FALSE, attempt |-> 2,
                    first |-> request.fills, rest |-> << >>]
    /\ response' = << >>
    /\ import_run' = << >>
    /\ UNCHANGED store

\* session.commit() of a session that read the rows `snapshot` and holds the
\* rows `after`: its deletes, updates and inserts applied to the rows
\* committed by then, the inserted rows numbered after them
Committed(current, snapshot, after) ==
    LET ids(rows) == { r.id : r \in rows }
        gone(was, now) == ids(was) \ ids(now)
        updated(was, now) == { r \in now : r.id \in ids(was) /\ r \notin was }
        inserted(was, now) == { r \in now : r.id \notin ids(was) }
        shift(cur, was) == Max(0, NextId(cur) - NextId(was))
        parent_shift == shift(current.parents, snapshot.parents)
        fill_shift == shift(current.fills, snapshot.fills)
        batch_shift == shift(current.batches, snapshot.batches)
        new_parent_ids == ids(inserted(snapshot.parents, after.parents))
        kept(cur, was, now) ==
            { r \in cur : r.id \notin gone(was, now) /\ r.id \notin ids(updated(was, now)) }
                \cup updated(was, now)
    IN [assets |-> current.assets \cup after.assets,
        parents |-> kept(current.parents, snapshot.parents, after.parents)
                    \cup { [q EXCEPT !.id = @ + parent_shift] :
                             q \in inserted(snapshot.parents, after.parents) },
        fills |-> kept(current.fills, snapshot.fills, after.fills)
                  \cup { [r EXCEPT !.id = @ + fill_shift,
                                   !.parent_trade_id =
                                       IF Val(@) \in new_parent_ids
                                       THEN Some(Val(@) + parent_shift) ELSE @,
                                   !.import_batch_id = @ + batch_shift] :
                           r \in inserted(snapshot.fills, after.fills) },
        batches |-> kept(current.batches, snapshot.batches, after.batches)
                    \cup { [b EXCEPT !.id = @ + batch_shift] :
                             b \in inserted(snapshot.batches, after.batches) }]

\* The store two simultaneous uploads find: empty, or one earlier upload
RaceInit ==
    /\ store \in {EmptyStore} \cup { StoreOf(<<f>>) : f \in ImportPool }
    /\ request = << >>
    /\ response = << >>
    /\ import_run = << >>
    /\ sessions = << >>

\* Two clients post a file each; each request gets a session of its own
Post ==
    /\ sessions = << >>
    /\ \E f1 \in ImportPool, f2 \in ImportPool, o1 \in BOOLEAN, o2 \in BOOLEAN :
         sessions' =
            <<[fills |-> <<f1>>, override_duplicates |-> o1, at |-> "posted",
               snapshot |-> << >>, commits_seen |-> 0, response |-> << >>],
              [fills |-> <<f2>>, override_duplicates |-> o2, at |-> "posted",
               snapshot |-> << >>, commits_seen |-> 0, response |-> << >>]>>
    /\ UNCHANGED <<store, request, response, import_run>>

\* import_ibkr_csv lines 306-335 in session i: the duplicate check and the
\* load of the open parents read the rows committed so far; no row is
\* locked and nothing records what was read
Read(i) ==
    /\ sessions # << >>
    /\ sessions[i].at = "posted"
    /\ sessions' = [sessions EXCEPT
                      ![i].at = "read",
                      ![i].snapshot = Some(store),
                      ![i].commits_seen =
                          Cardinality({ o \in 1..2 : sessions[o].at = "done" })]
    /\ UNCHANGED <<store, request, response, import_run>>

\* The rest of import_ibkr_csv in session i and the commit or rollback of
\* create_import (routes/imports.py:46-63)
Commit(i) ==
    /\ sessions # << >>
    /\ sessions[i].at = "read"
    /\ LET snapshot == Val(sessions[i].snapshot)
           result == import_ibkr_csv(snapshot, sessions[i].fills,
                                     sessions[i].override_duplicates)
       IN /\ store' = IF result.raised = "none"
                       THEN Committed(store, snapshot, result.session)
                       ELSE store
          /\ sessions' = [sessions EXCEPT ![i].at = "done",
                                          ![i].response = Respond(result)]
    /\ UNCHANGED <<request, response, import_run>>

-----------------------------------------------------------------------------
(* Specification of one aggregation run *)

Idle == store = EmptyStore /\ request = << >> /\ response = << >> /\ import_run = << >>

NoSessions == sessions = << >>

Init == AggInit /\ Idle /\ NoSessions

Next ==
    \/ Step /\ UNCHANGED <<importVars, sessions>>
    \/ LoopExit /\ UNCHANGED <<importVars, sessions>>
    \/ Finalize /\ UNCHANGED <<importVars, sessions>>

Spec == Init /\ [][Next]_vars

-----------------------------------------------------------------------------
(* Specification of uploads against a store *)

AggIdle ==
    /\ fills = << >> /\ ordered_fills = << >> /\ cursor = 0 /\ state_by_asset = << >>
    /\ parent_trades = << >> /\ fill_to_parent = << >> /\ pc = "done"

ImportSpecInit == ImportInit /\ AggIdle /\ NoSessions

ImportNext ==
    \/ Upload /\ UNCHANGED <<aggVars, sessions>>
    \/ CreateImport /\ UNCHANGED <<aggVars, sessions>>
    \/ Acknowledge /\ UNCHANGED <<aggVars, sessions>>

ImportSpec == ImportSpecInit /\ [][ImportNext]_vars

-----------------------------------------------------------------------------
(* Specification of a file posted twice against a store *)

ReimportNext ==
    \/ Upload /\ UNCHANGED <<aggVars, sessions>>
    \/ CreateImport /\ UNCHANGED <<aggVars, sessions>>
    \/ Retry /\ UNCHANGED <<aggVars, sessions>>

ReimportSpec == ImportSpecInit /\ [][ReimportNext]_vars

-----------------------------------------------------------------------------
(* Specification of uploads, one at a time, against a store that starts empty *)

FreshSpecInit == Idle /\ AggIdle /\ NoSessions

FreshSpec == FreshSpecInit /\ [][ImportNext]_vars

-----------------------------------------------------------------------------
(* Specification of a fill sequence uploaded as two files, one after the other *)

SplitNext ==
    \/ UploadFirstPart /\ UNCHANGED <<aggVars, sessions>>
    \/ CreateImport /\ UNCHANGED <<aggVars, sessions>>
    \/ UploadRest /\ UNCHANGED <<aggVars, sessions>>

SplitSpec == FreshSpecInit /\ [][SplitNext]_vars

-----------------------------------------------------------------------------
(* Specification of two uploads handled at the same time *)

RaceSpecInit == RaceInit /\ AggIdle

RaceNext ==
    \/ Post /\ UNCHANGED aggVars
    \/ (\E i \in 1..2 : Read(i)) /\ UNCHANGED aggVars
    \/ (\E i \in 1..2 : Commit(i)) /\ UNCHANGED aggVars

RaceSpec == RaceSpecInit /\ [][RaceNext]_vars

-----------------------------------------------------------------------------
(* Vocabulary of the properties, defined on the input alone *)

Elems(s) == { s[p] : p \in DOMAIN s }

RECURSIVE SumOver(_, _, _)
\* Sum of F(s[p]) for p in 1..n
SumOver(F(_), s, n) == IF n = 0 THEN 0 ELSE SumOver(F, s, n - 1) + F(s[n])

SignedQuantity(k) == IF fills[k].side = "BUY" THEN fills[k].quantity ELSE -fills[k].quantity

\* The fill processed at step p
FillAt(p) == fills[ordered_fills[p]]

RECURSIVE NetPosition(_, _)
\* Net signed quantity of instrument code over the first p processed fills
NetPosition(code, p) ==
    IF p = 0 THEN 0
    ELSE NetPosition(code, p - 1)
         + (IF FillAt(p).asset_code = code THEN SignedQuantity(ordered_fills[p]) ELSE 0)

\* Step p moves its instrument's position strictly through zero
Flips(p) ==
    NetPosition(FillAt(p).asset_code, p - 1) * NetPosition(FillAt(p).asset_code, p) < 0

\* The step that took the instrument of step p off zero most recently
LegStart(p) ==
    CHOOSE q \in 1..p :
        /\ FillAt(q).asset_code = FillAt(p).asset_code
        /\ NetPosition(FillAt(p).asset_code, q - 1) = 0
        /\ \A r \in (q + 1)..p :
             FillAt(r).asset_code = FillAt(p).asset_code
                => NetPosition(FillAt(p).asset_code, r - 1) # 0

TradesListing(k) == { j \in 1..Len(parent_trades) : k \in Elems(parent_trades[j].fill_indexes) }

Occurrences(s, k) == Cardinality({ p \in DOMAIN s : s[p] = k })

Closed(t) == t.close_time # None

-----------------------------------------------------------------------------
(* C1: when aggregate_parent_trades returns, every input fill index occurs *)
(* in the fill_indexes of exactly one returned trade, once, and            *)
(* fill_to_parent maps it to that trade's position; no trade lists an      *)
(* index that is not an input index.                                       *)
C1_FillsPartitioned ==
    pc = "done" =>
        /\ DOMAIN fill_to_parent = 1..Len(fills)
        /\ \A j \in 1..Len(parent_trades) :
             Elems(parent_trades[j].fill_indexes) \subseteq 1..Len(fills)
        /\ \A k \in 1..Len(fills) :
             /\ Cardinality(TradesListing(k)) = 1
             /\ TradesListing(k) = {fill_to_parent[k]}
             /\ Occurrences(parent_trades[fill_to_parent[k]].fill_indexes, k) = 1

C1_Witness ==
    /\ pc = "done"
    /\ Len(fills) = 3
    /\ Len(parent_trades) = 2
    /\ Closed(parent_trades[1])
    /\ Len(parent_trades[1].fill_indexes) = 2
    /\ fill_to_parent[parent_trades[2].fill_indexes[1]] = 2

(* C2: a fill that moves its instrument's position strictly through zero   *)
(* is listed by two returned trades: the leg it closes (closed at the      *)
(* fill's time, the fill last in it) and the opposite leg it opens (the    *)
(* fill first in it, direction by the sign of the position after it).      *)
C2_FlipMakesTwoTrades ==
    pc = "done" =>
        \A p \in 1..Len(ordered_fills) :
            Flips(p) =>
                LET k == ordered_fills[p]
                    after == NetPosition(FillAt(p).asset_code, p)
                IN /\ Cardinality(TradesListing(k)) = 2
                   /\ \E j \in TradesListing(k) :
                        /\ parent_trades[j].close_time = Some(fills[k].trade_time)
                        /\ parent_trades[j].fill_indexes[Len(parent_trades[j].fill_indexes)] = k
                   /\ \E j \in TradesListing(k) :
                        /\ parent_trades[j].fill_indexes[1] = k
                        /\ parent_trades[j].direction = IF after > 0 THEN "long" ELSE "short"

(* C3: a step whose fill brings its instrument's net position to exactly   *)
(* zero appends exactly one trade, for that instrument, closed at that     *)
(* fill's time and opened at the time of the fill that took the position   *)
(* off zero, and leaves no state for the instrument; a step whose fill     *)
(* finds the position at zero starts a state holding only that fill.       *)
C3_ZeroEmitsAndClears ==
    [][ (pc = "loop" /\ cursor' = cursor + 1) =>
          LET p == cursor + 1
              code == FillAt(p).asset_code
          IN /\ NetPosition(code, p) = 0 =>
                  /\ Len(parent_trades') = Len(parent_trades) + 1
                  /\ SubSeq(parent_trades', 1, Len(parent_trades)) = parent_trades
                  /\ LET t == parent_trades'[Len(parent_trades')]
                     IN /\ t.asset_code = code
                        /\ t.close_time = Some(FillAt(p).trade_time)
                        /\ t.open_time = FillAt(LegStart(p)).trade_time
                        /\ t.fill_indexes[Len(t.fill_indexes)] = ordered_fills[p]
                  /\ \A s \in Elems(state_by_asset') : s.asset_code # code
             /\ NetPosition(code, p) # 0 => parent_trades' = parent_trades
             /\ (NetPosition(code, p - 1) = 0 /\ NetPosition(code, p) # 0) =>
                  \E s \in Elems(state_by_asset') :
                      /\ s.asset_code = code
                      /\ s.fills = <<ordered_fills[p]>>
                      /\ s.open_time = FillAt(p).trade_time
      ]_vars

\* A leg of X closed at time 2 after opening at time 1, and the next fill of
\* X has started a new leg.
C3_Witness ==
    /\ pc = "loop"
    /\ cursor = 3
    /\ Len(parent_trades) = 1
    /\ parent_trades[1].open_time = 1
    /\ parent_trades[1].close_time = Some(2)
    /\ \E s \in Elems(state_by_asset) :
         s.asset_code = parent_trades[1].asset_code /\ Len(s.fills) = 1

-----------------------------------------------------------------------------
(* Sums over the fills a trade lists *)

NetCashOf(k) == resolve_net_cash(fills[k])

CommissionOf(k) == fills[k].commission

\* Position of the leg before its r-th listed fill
RECURSIVE LegPosition(_, _)
LegPosition(idx, r) ==
    IF r <= 1 THEN 0 ELSE LegPosition(idx, r - 1) + SignedQuantity(idx[r - 1])

\* Part of the r-th listed fill that increases the absolute position
OpeningPortion(idx, r) ==
    LET before == LegPosition(idx, r)
        after == LegPosition(idx, r + 1)
    IN IF before * after < 0 THEN Abs(after)
       ELSE IF Abs(after) > Abs(before) THEN Abs(after) - Abs(before) ELSE 0

\* Part of the r-th listed fill that decreases the absolute position
ClosingPortion(idx, r) ==
    LET before == LegPosition(idx, r)
        after == LegPosition(idx, r + 1)
    IN IF before * after < 0 THEN Abs(before)
       ELSE IF Abs(after) < Abs(before) THEN Abs(before) - Abs(after) ELSE 0

\* |proceeds| / quantity when the broker reports proceeds, else price * multiplier
UnitAmountOf(k) ==
    IF fills[k].proceeds # None
    THEN Frac(Abs(Val(fills[k].proceeds)), fills[k].quantity)
    ELSE Frac(fills[k].price * fills[k].multiplier, 1)

RECURSIVE Notional(_, _, _)
\* Sum over the first n listed fills of portion * unit amount
Notional(Portion(_, _), idx, n) ==
    IF n = 0 THEN Zero
    ELSE FracAdd(Notional(Portion, idx, n - 1),
                 FracScale(Portion(idx, n), UnitAmountOf(idx[n])))

RECURSIVE PortionSum(_, _, _)
PortionSum(Portion(_, _), idx, n) ==
    IF n = 0 THEN 0 ELSE PortionSum(Portion, idx, n - 1) + Portion(idx, n)

RECURSIVE PricedSum(_, _, _)
\* Sum over the first n listed fills of portion * price
PricedSum(Portion(_, _), idx, n) ==
    IF n = 0 THEN 0
    ELSE PricedSum(Portion, idx, n - 1) + Portion(idx, n) * fills[idx[n]].price

\* All trades emitted so far
Emitted == Elems(parent_trades)

(* C4: every emitted trade's profit_loss is the sum of resolve_net_cash    *)
(* over the fills it lists and its total_commission the sum of their       *)
(* commissions; a buy of q at p1 followed by a sell of q at p2 of one      *)
(* instrument with multiplier m and no broker net cash gives one closed    *)
(* trade with profit_loss q*p2*m - q*p1*m - commissions.                   *)
C4_ProfitIsNetCashSum ==
    /\ \A t \in Emitted :
         /\ t.profit_loss = SumOver(NetCashOf, t.fill_indexes, Len(t.fill_indexes))
         /\ t.total_commission = SumOver(CommissionOf, t.fill_indexes, Len(t.fill_indexes))
    /\ (/\ pc = "done"
        /\ Len(fills) = 2
        /\ FillAt(1).side = "BUY" /\ FillAt(2).side = "SELL"
        /\ FillAt(1).asset_code = FillAt(2).asset_code
        /\ FillAt(1).quantity = FillAt(2).quantity
        /\ FillAt(1).multiplier = FillAt(2).multiplier
        /\ FillAt(1).net_cash = None /\ FillAt(2).net_cash = None)
       => /\ Len(parent_trades) = 1
          /\ Closed(parent_trades[1])
          /\ parent_trades[1].profit_loss =
                FillAt(2).quantity * FillAt(2).price * FillAt(2).multiplier
                - FillAt(1).quantity * FillAt(1).price * FillAt(1).multiplier
                - (FillAt(1).commission + FillAt(2).commission)

\* Buy 2 at 100 then sell 2 at 110, commission 1 each: profit 220 - 200 - 2.
C4_Witness ==
    /\ pc = "done"
    /\ Len(fills) = 2
    /\ FillAt(1).side = "BUY" /\ FillAt(1).quantity = 2 /\ FillAt(1).price = 100
    /\ FillAt(2).side = "SELL" /\ FillAt(2).quantity = 2 /\ FillAt(2).price = 110
    /\ FillAt(1).multiplier = 1 /\ FillAt(2).multiplier = 1
    /\ FillAt(1).net_cash = None /\ FillAt(2).net_cash = None
    /\ Len(parent_trades) = 1
    /\ parent_trades[1].profit_loss = 18
    /\ parent_trades[1].total_commission = 2

(* C5: for every closed trade, open_price is the open notional (opening    *)
(* portion times unit amount, summed) over opening quantity times the      *)
(* multiplier, close_price likewise, and so, when no fill of the trade     *)
(* carries broker proceeds, open_price and close_price are the averages    *)
(* of the fills' prices weighted by their opening and closing portions.    *)
C5_PricesAreWeightedAverages ==
    \A t \in Emitted :
        Closed(t) =>
            LET idx == t.fill_indexes
                n == Len(idx)
                m == fills[idx[n]].multiplier
                oq == PortionSum(OpeningPortion, idx, n)
                cq == PortionSum(ClosingPortion, idx, n)
            IN /\ oq > 0 /\ cq > 0
               /\ t.open_price = Some(FracDiv(Notional(OpeningPortion, idx, n), oq * m))
               /\ t.close_price = Some(FracDiv(Notional(ClosingPortion, idx, n), cq * m))
               /\ (\A r \in 1..n : fills[idx[r]].proceeds = None) =>
                    /\ t.open_price = Some(Frac(PricedSum(OpeningPortion, idx, n), oq))
                    /\ t.close_price = Some(Frac(PricedSum(ClosingPortion, idx, n), cq))

(* C6: resolve_net_cash returns a broker-reported net_cash unchanged, the  *)
(* value 0 included; seen on the state after the first processed fill,     *)
(* whose net_cash_total is that one result.                                *)
C6_BrokerNetCashVerbatim ==
    /\ \A k \in 1..Len(fills) :
         fills[k].net_cash # None => resolve_net_cash(fills[k]) = Val(fills[k].net_cash)
    /\ (pc = "loop" /\ cursor = 1 /\ FillAt(1).net_cash # None) =>
         \A s \in Elems(state_by_asset) : s.net_cash_total = Val(FillAt(1).net_cash)

\* A fill with broker net cash 0 and price 100 has been resolved to 0.
C6_Witness ==
    /\ pc = "loop"
    /\ cursor = 1
    /\ FillAt(1).net_cash = Some(0)
    /\ FillAt(1).price * FillAt(1).quantity > 0
    /\ \E s \in Elems(state_by_asset) : s.net_cash_total = 0

(* C7: without broker net cash resolve_net_cash is                         *)
(* +price*quantity*multiplier - commission for a SELL and                  *)
(* -price*quantity*multiplier - commission for a BUY; price 100, quantity  *)
(* 2, multiplier 1, commission 1 give -201 for a BUY and 199 for a SELL.   *)
C7_DerivedNetCash ==
    /\ \A k \in 1..Len(fills) :
         fills[k].net_cash = None =>
            LET amount == fills[k].price * fills[k].quantity * fills[k].multiplier
            IN /\ fills[k].side = "SELL" => resolve_net_cash(fills[k]) = amount - fills[k].commission
               /\ fills[k].side = "BUY" => resolve_net_cash(fills[k]) = -amount - fills[k].commission
    /\ (/\ pc = "loop" /\ cursor = 1
        /\ FillAt(1).net_cash = None
        /\ FillAt(1).price = 100 /\ FillAt(1).quantity = 2
        /\ FillAt(1).multiplier = 1 /\ FillAt(1).commission = 1)
       => \A s \in Elems(state_by_asset) :
             s.net_cash_total = IF FillAt(1).side = "BUY" THEN -201 ELSE 199

C7_Witness ==
    /\ pc = "loop"
    /\ cursor = 1
    /\ FillAt(1).net_cash = None
    /\ FillAt(1).side = "SELL"
    /\ FillAt(1).price = 100 /\ FillAt(1).quantity = 2
    /\ FillAt(1).multiplier = 1 /\ FillAt(1).commission = 1
    /\ \E s \in Elems(state_by_asset) : s.net_cash_total = 199

-----------------------------------------------------------------------------
(* Vocabulary of the import properties *)

\* The step in which create_import handles the posted request
Handles == request # << >> /\ response = << >> /\ response' # << >>

\* A persisted fill has the candidate's non-empty source and its timestamp
Recorded(st, f) ==
    /\ f.source # None
    /\ f.source # Some("")
    /\ \E r \in st.fills : r.source = f.source /\ r.trade_time = f.trade_time

FlaggedIn(st, fs) == { i \in 1..Len(fs) : Recorded(st, fs[i]) }

RECURSIVE Unflagged(_, _, _)
\* The candidates that are not flagged, in their original order
Unflagged(st, fs, n) ==
    IF n = 0 THEN << >>
    ELSE IF Recorded(st, fs[n]) THEN Unflagged(st, fs, n - 1)
         ELSE Append(Unflagged(st, fs, n - 1), fs[n])

\* The row is the persisted form of the candidate fill
RowOfFill(r, f) ==
    /\ r.asset_code = f.asset_code /\ r.side = f.side /\ r.quantity = f.quantity
    /\ r.price = f.price /\ r.commission = f.commission
    /\ r.trade_time = f.trade_time /\ r.source = f.source

(* C8: check_duplicate_trades flags candidate i exactly when its source is *)
(* non-empty and a persisted fill has that source and that timestamp.      *)
C8_FlaggedIffSourceAndTime ==
    [][ Handles =>
          import_run'.locals.duplicate_indexes = FlaggedIn(store, request.fills)
      ]_vars

\* Two candidates with source "a": the first at a persisted time is flagged,
\* the second, whose time is persisted for no "a" fill, is not; nor is a
\* source-less candidate at a time a source-less fill is persisted with.
C8_Witness ==
    /\ import_run # << >>
    /\ Len(request.fills) = 2
    /\ request.fills[1].source = Some("a")
    /\ request.fills[2].source = Some("a")
    /\ import_run.locals.duplicate_indexes = {1}
    /\ \E r \in store.fills : r.source = None /\ r.trade_time = 1

(* C9: a skip-mode import hands the aggregator, as its new fills, the      *)
(* candidates that are not flagged, in their order, and persists exactly   *)
(* those; no flagged candidate is persisted again.                         *)
C9_SkipPersistsUnflagged ==
    [][ (Handles /\ ~request.override_duplicates) =>
          LET wanted == Unflagged(store, request.fills, Len(request.fills))
              news == SelectSeq(import_run'.combined_records, LAMBDA c : c.kind = "new")
              written == ById(store'.fills \ store.fills)
          IN /\ import_run'.locals.unique_fills = wanted
             /\ wanted # << >> =>
                  /\ Len(news) = Len(wanted)
                  /\ \A p \in 1..Len(wanted) : news[p].normalized = wanted[p]
             /\ Len(written) = Len(wanted)
             /\ \A p \in 1..Len(written) : RowOfFill(written[p], wanted[p])
             /\ store.fills \subseteq store'.fills
      ]_vars

(* C10: a skip-mode upload of a non-empty batch whose fills are all        *)
(* flagged raises DuplicateTradeError and is answered 409 duplicates_only  *)
(* with the number of flagged fills, not as a validation failure, and      *)
(* leaves the store as it was.                                             *)
C10_DuplicatesOnlyConflict ==
    [][ (/\ Handles
         /\ ~request.override_duplicates
         /\ Len(request.fills) > 0
         /\ FlaggedIn(store, request.fills) = 1..Len(request.fills))
        => /\ import_run'.raised = "DuplicateTradeError"
           /\ response' = [status_code |-> 409, code |-> "duplicates_only",
                           duplicates |-> Cardinality(FlaggedIn(store, request.fills))]
           /\ store' = store
      ]_vars

C10_Witness ==
    /\ response # << >>
    /\ ~request.override_duplicates
    /\ Len(request.fills) = 2
    /\ response.status_code = 409
    /\ response.code = "duplicates_only"
    /\ response.duplicates = 2

-----------------------------------------------------------------------------
(* C11: a non-empty file posted a second time in skip mode raises          *)
(* DuplicateTradeError and is answered duplicates_only, and the parent     *)
(* trades and fills persisted after the second import are those persisted  *)
(* after the first.                                                        *)
C11_ReimportIsIdempotent ==
    [][ (/\ Handles
         /\ request.attempt = 2
         /\ ~request.override_duplicates
         /\ Len(request.fills) > 0)
        => /\ import_run'.raised = "DuplicateTradeError"
           /\ response'.code = "duplicates_only"
           /\ store'.parents = store.parents
           /\ store'.fills = store.fills
      ]_vars

\* Ids of the persisted parents owning a persisted fill with the source and
\* timestamp of a flagged candidate
OwnersOfFlagged(st, fs) ==
    { Val(r.parent_trade_id) :
        r \in { r \in st.fills :
                  /\ r.parent_trade_id # None
                  /\ \E i \in FlaggedIn(st, fs) :
                       r.source = fs[i].source /\ r.trade_time = fs[i].trade_time } }

(* C12: an override-mode import with at least one flagged candidate        *)
(* deletes every persisted parent owning a fill that matches a flagged     *)
(* candidate, with all fills of that parent, before the open parents are   *)
(* loaded (none of their fills is handed to the aggregator and none of     *)
(* their fill rows is persisted afterwards), then hands all candidates,    *)
(* flagged ones included, to the aggregator and persists them, with zero   *)
(* skipped records.                                                        *)
C12_OverrideReplacesOwners ==
    [][ (/\ Handles
         /\ request.override_duplicates
         /\ FlaggedIn(store, request.fills) # {})
        => LET doomed == OwnersOfFlagged(store, request.fills)
               records == import_run'.combined_records
               news == SelectSeq(records, LAMBDA c : c.kind = "new")
               written == ById(store'.fills \ store.fills)
           IN /\ doomed # {}
              /\ \A p \in 1..Len(records) :
                   records[p].kind = "existing"
                      => Val(Val(records[p].existing_fill).parent_trade_id) \notin doomed
              /\ [p \in 1..Len(news) |-> news[p].normalized] = request.fills
              /\ import_run'.locals.skipped_count = 0
              /\ \A r \in store.fills :
                   Val(r.parent_trade_id) \in doomed => r \notin store'.fills
              /\ Len(written) = Len(request.fills)
              /\ \A p \in 1..Len(written) : RowOfFill(written[p], request.fills[p])
      ]_vars

\* The store an import works on once override mode has deleted the owners
\* of the flagged candidates
AfterOverride(st, req) ==
    IF req.override_duplicates /\ FlaggedIn(st, req.fills) # {}
    THEN [st EXCEPT
            !.parents = { q \in @ : q.id \notin OwnersOfFlagged(st, req.fills) },
            !.fills = { r \in @ : Val(r.parent_trade_id)
                                    \notin OwnersOfFlagged(st, req.fills) }]
    ELSE st

\* The candidates an import hands on: all of them in override mode with a
\* flagged candidate, else the unflagged ones
HandedOn(st, req) ==
    IF req.override_duplicates /\ FlaggedIn(st, req.fills) # {}
    THEN req.fills
    ELSE Unflagged(st, req.fills, Len(req.fills))

\* Persisted fills of the open parents of the instruments of the fills fs
OpenFills(st, fs) ==
    { r \in st.fills :
        \E q \in st.parents :
            /\ r.parent_trade_id = Some(q.id)
            /\ q.close_time = None
            /\ \E i \in 1..Len(fs) : fs[i].asset_code = q.asset_code }

\* Ids of the existing parents owning a fill the trade lists
OwnersIn(records, t) ==
    { Val(Val(records[k].existing_fill).parent_trade_id) :
        k \in { k \in Elems(t.fill_indexes) : records[k].kind = "existing" } }

\* The persisted parent row holds the trade's values
RowOfTrade(q, t) ==
    /\ q.asset_code = t.asset_code /\ q.direction = t.direction
    /\ q.quantity = t.quantity /\ q.open_time = t.open_time
    /\ q.close_time = t.close_time /\ q.open_price = t.open_price
    /\ q.close_price = t.close_price /\ q.total_commission = t.total_commission
    /\ q.profit_loss = t.profit_loss

(* C13: an import that has fills to hand on loads the fills of every       *)
(* persisted open parent of the instruments of those fills and aggregates  *)
(* them with the new fills; a resulting trade listing a fill of an         *)
(* existing open parent is written to that parent's row and gets no new    *)
(* row, and a resulting trade of new fills only gets a new parent row.     *)
C13_ContinuesOpenParents ==
    [][ (/\ Handles
         /\ HandedOn(store, request) # << >>
         /\ \A t \in Elems(import_run'.aggregated_trades) :
              Cardinality(OwnersIn(import_run'.combined_records, t)) <= 1)
        => LET base == AfterOverride(store, request)
               records == import_run'.combined_records
               trades == import_run'.aggregated_trades
               loaded == { Val(records[k].existing_fill) :
                             k \in { k \in 1..Len(records) : records[k].kind = "existing" } }
               continued == { j \in 1..Len(trades) : OwnersIn(records, trades[j]) # {} }
               fresh == { j \in 1..Len(trades) : OwnersIn(records, trades[j]) = {} }
               old_ids == { q.id : q \in base.parents }
               new_rows == { q \in store'.parents : q.id \notin old_ids }
           IN /\ loaded = OpenFills(base, HandedOn(store, request))
              /\ trades = aggregate_parent_trades(
                             [k \in 1..Len(records) |-> records[k].normalized]).parent_trades
              /\ old_ids \subseteq { q.id : q \in store'.parents }
              /\ \A j \in continued :
                   \A id \in OwnersIn(records, trades[j]) :
                       (\A l \in continued : l > j => id \notin OwnersIn(records, trades[l]))
                          => \E q \in store'.parents : q.id = id /\ RowOfTrade(q, trades[j])
              /\ Cardinality(new_rows) = Cardinality(fresh)
              /\ \A j \in fresh : \E q \in new_rows : RowOfTrade(q, trades[j])
      ]_vars

\* Some resulting trade lists fills of more than one existing parent
MixesParents(run) ==
    \E t \in Elems(run.aggregated_trades) :
        Cardinality(OwnersIn(run.combined_records, t)) > 1

(* C14: an import one of whose resulting trades lists fills of more than   *)
(* one existing open parent raises ImportValidationError, is answered as   *)
(* a validation failure, and leaves the store as it was.                   *)
C14_MixedParentsRejected ==
    [][ (Handles /\ MixesParents(import_run'))
        => /\ import_run'.raised = "ImportValidationError"
           /\ response'.status_code = 400
           /\ store' = store
      ]_vars

(* C15: an import that is not answered 201, whatever it raised and         *)
(* whatever its session had deleted, updated or flushed by then, leaves    *)
(* the persisted assets, parent trades, fills and batches as they were.    *)
C15_FailedImportChangesNothing ==
    [][ (Handles /\ response'.status_code # 201)
        => /\ import_run'.raised # "none"
           /\ store'.assets = store.assets
           /\ store'.parents = store.parents
           /\ store'.fills = store.fills
           /\ store'.batches = store.batches
      ]_vars

\* An override-mode import whose session had deleted a parent and its fill
\* when it raised; the parent and the fill are still persisted.
C15_Witness ==
    /\ response # << >>
    /\ response.status_code = 500
    /\ request.override_duplicates
    /\ import_run.raised = "TypeError"
    /\ import_run.session.parents # store.parents
    /\ import_run.session.fills # store.fills
    /\ store.parents # {}

\* Every persisted fill references a persisted parent and every persisted
\* parent owns a persisted fill
Linked(st) ==
    /\ \A r \in st.fills : \E q \in st.parents : r.parent_trade_id = Some(q.id)
    /\ \A q \in st.parents : \E r \in st.fills : r.parent_trade_id = Some(q.id)

(* C16: a skip-mode import of a non-empty batch into an empty store        *)
(* succeeds (the case of test_import_ibkr_csv), and after any successful   *)
(* import exactly one batch row was added, its status is COMPLETED, every  *)
(* persisted fill references a persisted parent trade and every persisted  *)
(* parent trade owns at least one fill.                                    *)
C16_SuccessfulImportIsComplete ==
    [][ Handles
        => /\ (/\ store = EmptyStore
               /\ ~request.override_duplicates
               /\ Len(request.fills) > 0) => response'.status_code = 201
           /\ response'.status_code = 201
                => /\ store.batches \subseteq store'.batches
                   /\ Cardinality(store'.batches \ store.batches) = 1
                   /\ \A b \in store'.batches \ store.batches : b.status = "completed"
                   /\ store'.fills # {}
                   /\ Linked(store')
      ]_vars

-----------------------------------------------------------------------------
(* Vocabulary of the leg properties *)

\* The step at which fill index k is processed
StepOf(k) == CHOOSE p \in 1..Len(ordered_fills) : ordered_fills[p] = k

\* Largest absolute position of the leg after any of its listed fills
PeakOf(idx) ==
    CHOOSE m \in { Abs(LegPosition(idx, r + 1)) : r \in 1..Len(idx) } :
        \A r \in 1..Len(idx) : Abs(LegPosition(idx, r + 1)) <= m

\* The last step that processes a fill of the instrument
LastStepOf(code) ==
    CHOOSE p \in 1..Len(ordered_fills) :
        /\ FillAt(p).asset_code = code
        /\ \A q \in (p + 1)..Len(ordered_fills) : FillAt(q).asset_code # code

\* The fill indexes of the instrument processed since its position last
\* left zero, in processing order
RECURSIVE SinceLeftZero(_, _, _)
SinceLeftZero(code, from, to) ==
    IF from > to THEN << >>
    ELSE (IF FillAt(from).asset_code = code THEN <<ordered_fills[from]>> ELSE << >>)
         \o SinceLeftZero(code, from + 1, to)

OpenTradesOf(code) ==
    { j \in 1..Len(parent_trades) :
        parent_trades[j].asset_code = code /\ ~Closed(parent_trades[j]) }

(* C17: the first fill of every emitted trade, and of every leg under way, *)
(* found its instrument's position at zero; the direction is long if that  *)
(* fill is a buy and short if it is a sell, whatever the later fills of    *)
(* the leg do, and open_time is that fill's timestamp.                     *)
C17_DirectionFixedAtLegStart ==
    /\ \A t \in Emitted :
         LET k == t.fill_indexes[1]
         IN /\ NetPosition(fills[k].asset_code, StepOf(k) - 1) = 0
            /\ t.direction = IF fills[k].side = "BUY" THEN "long" ELSE "short"
            /\ t.open_time = fills[k].trade_time
    /\ \A s \in Elems(state_by_asset) :
         LET k == s.fills[1]
         IN /\ NetPosition(fills[k].asset_code, StepOf(k) - 1) = 0
            /\ s.direction = IF fills[k].side = "BUY" THEN "long" ELSE "short"
            /\ s.open_time = fills[k].trade_time

\* A short trade opened at time 1 whose later fills include a buy at time 2
\* that takes the position above zero.
C17_Witness ==
    /\ pc = "done"
    /\ \E t \in Emitted :
         /\ t.direction = "short"
         /\ t.open_time = 1
         /\ Len(t.fill_indexes) = 2
         /\ fills[t.fill_indexes[2]].side = "BUY"
         /\ fills[t.fill_indexes[2]].trade_time = 2
         /\ LegPosition(t.fill_indexes, 3) > 0

(* C18: every emitted trade's quantity is the largest absolute position    *)
(* its leg had after any of its fills, closed or still open.               *)
C18_QuantityIsPeakPosition ==
    \A t \in Emitted : t.quantity = PeakOf(t.fill_indexes)

\* A still-open trade of quantity 2 whose position is 1, and a closed trade
\* of quantity 2.
C18_Witness ==
    /\ pc = "done"
    /\ \E t \in Emitted :
         /\ ~Closed(t)
         /\ t.quantity = 2
         /\ Abs(LegPosition(t.fill_indexes, Len(t.fill_indexes) + 1)) = 1

(* C19: when aggregate_parent_trades returns, an instrument whose net      *)
(* position is not zero has exactly one trade without close_time, listing  *)
(* exactly the fills processed since its position last left zero, and an   *)
(* instrument whose net position is zero has none; a trade with            *)
(* close_time ends with a fill that brought the net position to zero, at   *)
(* that fill's time, and trades without close_time appear only when the    *)
(* loop is over.                                                           *)
C19_OneOpenTradePerOpenInstrument ==
    /\ pc = "done" =>
         \A code \in Assets :
             IF NetPosition(code, Len(ordered_fills)) # 0
             THEN /\ Cardinality(OpenTradesOf(code)) = 1
                  /\ \A j \in OpenTradesOf(code) :
                       parent_trades[j].fill_indexes =
                           SinceLeftZero(code, LegStart(LastStepOf(code)),
                                         Len(ordered_fills))
             ELSE OpenTradesOf(code) = {}
    /\ \A t \in Emitted :
         Closed(t) =>
            LET k == t.fill_indexes[Len(t.fill_indexes)]
            IN /\ NetPosition(t.asset_code, StepOf(k)) = 0
               /\ t.close_time = Some(fills[k].trade_time)
    /\ pc \in {"loop", "final"} => \A t \in Emitted : Closed(t)

\* X was closed and reopened: the still-open trade lists only the fill after
\* the close.
C19_Witness ==
    /\ pc = "done"
    /\ Len(parent_trades) = 2
    /\ parent_trades[1].asset_code = parent_trades[2].asset_code
    /\ Closed(parent_trades[1])
    /\ ~Closed(parent_trades[2])
    /\ Len(parent_trades[2].fill_indexes) = 1

(* C20: an emitted trade's open_price is absent exactly when the opening   *)
(* portions of its fills sum to zero and its close_price exactly when the  *)
(* closing portions do, an absent price never being reported as 0; a       *)
(* still-open trade none of whose fills reduced the position has no        *)
(* close_price.                                                            *)
C20_PriceAbsentIffNoQuantity ==
    \A t \in Emitted :
        LET idx == t.fill_indexes
            n == Len(idx)
        IN /\ t.open_price = None <=> PortionSum(OpeningPortion, idx, n) = 0
           /\ t.close_price = None <=> PortionSum(ClosingPortion, idx, n) = 0
           /\ PortionSum(OpeningPortion, idx, n) = 0 => t.open_price # Some(Zero)
           /\ PortionSum(ClosingPortion, idx, n) = 0 => t.close_price # Some(Zero)
           /\ (~Closed(t) /\ \A r \in 1..n : ClosingPortion(idx, r) = 0)
                => t.close_price = None

\* A still-open trade of two buys: open_price 100, no close_price.
C20_Witness ==
    /\ pc = "done"
    /\ \E t \in Emitted :
         /\ ~Closed(t)
         /\ Len(t.fill_indexes) = 2
         /\ t.open_price = Some(Frac(100, 1))
         /\ t.close_price = None

-----------------------------------------------------------------------------
\* The input fills in processing order
InProcessingOrder == [p \in 1..Len(ordered_fills) |-> FillAt(p)]

\* The trade with its fill indexes read through the processing order
Relabelled(t) ==
    [t EXCEPT !.fill_indexes = [r \in 1..Len(@) |-> ordered_fills[@[r]]]]

EarlierStepsOf(code, p) == { q \in 1..(p - 1) : FillAt(q).asset_code = code }

(* C22: when a fill finds its instrument back at zero after earlier fills  *)
(* of that instrument, the trade of the earlier leg stays as emitted and   *)
(* does not list the fill, and the leg the fill starts holds that fill     *)
(* alone: its own direction and open_time, and commission, net cash,       *)
(* notional, quantities and peak counted from that fill only. No two       *)
(* emitted trades list a fill in common.                                   *)
C22_ReopenStartsAfresh ==
    /\ [][ (/\ pc = "loop" /\ cursor' = cursor + 1
            /\ EarlierStepsOf(FillAt(cursor + 1).asset_code, cursor + 1) # {}
            /\ NetPosition(FillAt(cursor + 1).asset_code, cursor) = 0) =>
             LET k == ordered_fills[cursor + 1]
                 code == fills[k].asset_code
             IN /\ \E t \in Emitted : t.asset_code = code /\ Closed(t)
                /\ parent_trades' = parent_trades
                /\ \A t \in Emitted : k \notin Elems(t.fill_indexes)
                /\ \E s \in Elems(state_by_asset') :
                     /\ s.asset_code = code
                     /\ s.fills = <<k>>
                     /\ s.direction = IF fills[k].side = "BUY" THEN "long" ELSE "short"
                     /\ s.open_time = fills[k].trade_time
                     /\ s.position = SignedQuantity(k)
                     /\ s.max_abs_position = fills[k].quantity
                     /\ s.open_sum_qty = fills[k].quantity
                     /\ s.close_sum_qty = 0
                     /\ s.open_sum_amount = FracScale(fills[k].quantity, UnitAmountOf(k))
                     /\ s.close_sum_amount = Zero
                     /\ s.total_commission = CommissionOf(k)
                     /\ s.net_cash_total = NetCashOf(k)
         ]_vars
    /\ [](\A i \in 1..Len(parent_trades) : \A j \in (i + 1)..Len(parent_trades) :
            Elems(parent_trades[i].fill_indexes)
                \cap Elems(parent_trades[j].fill_indexes) = {})

\* A long leg of X closed with a commission paid, and the next fill of X, a
\* sell, has started a short leg of its own.
C22_Witness ==
    /\ pc = "done"
    /\ Len(parent_trades) = 2
    /\ parent_trades[1].asset_code = parent_trades[2].asset_code
    /\ Closed(parent_trades[1]) /\ ~Closed(parent_trades[2])
    /\ parent_trades[1].direction = "long"
    /\ parent_trades[2].direction = "short"
    /\ parent_trades[1].total_commission > 0
    /\ StepOf(parent_trades[2].fill_indexes[1]) = 3

\* The state the aggregation holds for the instrument, << >> if none
StateOf(sba, code) ==
    IF \E p \in 1..Len(sba) : sba[p].asset_code = code
    THEN <<sba[CHOOSE p \in 1..Len(sba) : sba[p].asset_code = code]>>
    ELSE << >>

\* Opening and closing quantity accumulated for the instrument, 0 without state
OpenSumOf(sba, code) ==
    IF StateOf(sba, code) = << >> THEN 0 ELSE StateOf(sba, code)[1].open_sum_qty

CloseSumOf(sba, code) ==
    IF StateOf(sba, code) = << >> THEN 0 ELSE StateOf(sba, code)[1].close_sum_qty

(* C23: a step whose fill does not move the position across zero counts    *)
(* the whole fill as opening when the position before is zero; otherwise   *)
(* the opening portion is the growth of the absolute position and the      *)
(* closing portion its decrease, so one of the two is zero and the other   *)
(* is the fill's quantity. While the leg stays open the accumulated        *)
(* opening and closing quantities of its state grow by these portions.     *)
C23_PortionsOfSameSideFill ==
    [][ (/\ pc = "loop" /\ cursor' = cursor + 1
         /\ NetPosition(FillAt(cursor + 1).asset_code, cursor)
              * NetPosition(FillAt(cursor + 1).asset_code, cursor + 1) >= 0) =>
          LET fill == FillAt(cursor + 1)
              code == fill.asset_code
              before == NetPosition(code, cursor)
              after == NetPosition(code, cursor + 1)
              opening == open_qty(before, after)
              closing == close_qty(before, after)
          IN /\ before = 0 => opening = fill.quantity /\ closing = 0
             /\ before # 0 =>
                  /\ opening = Max(Abs(after) - Abs(before), 0)
                  /\ closing = Max(Abs(before) - Abs(after), 0)
             /\ \/ opening = fill.quantity /\ closing = 0
                \/ opening = 0 /\ closing = fill.quantity
             /\ after # 0 =>
                  /\ StateOf(state_by_asset', code) # << >>
                  /\ OpenSumOf(state_by_asset', code)
                       = OpenSumOf(state_by_asset, code) + opening
                  /\ CloseSumOf(state_by_asset', code)
                       = CloseSumOf(state_by_asset, code) + closing
             /\ after = 0 =>
                  /\ StateOf(state_by_asset', code) = << >>
                  /\ closing = Abs(before)
      ]_vars

\* A leg of X that grew to 2 and was then reduced to 1: closing quantity 1
\* accumulated on a position that is still open.
C23_Witness ==
    /\ pc = "loop"
    /\ cursor = 3
    /\ \E s \in Elems(state_by_asset) :
         /\ s.open_sum_qty = 2
         /\ s.close_sum_qty = 1
         /\ Abs(s.position) = 1
         /\ Len(s.fills) = 3

(* C25: for every instrument with state, accumulated opening quantity      *)
(* minus accumulated closing quantity is the absolute running position,    *)
(* the two accumulate the opening and closing portions of the leg's        *)
(* fills, and the two portions of each fill add up to its quantity; every  *)
(* closed trade has equal and positive total opening and closing quantity  *)
(* and both of its prices present.                                         *)
C25_QuantitiesBalance ==
    [](
      /\ \A s \in Elems(state_by_asset) :
           /\ s.position = NetPosition(s.asset_code, cursor)
           /\ s.open_sum_qty - s.close_sum_qty = Abs(s.position)
           /\ s.open_sum_qty = PortionSum(OpeningPortion, s.fills, Len(s.fills))
           /\ s.close_sum_qty = PortionSum(ClosingPortion, s.fills, Len(s.fills))
           /\ \A r \in 1..Len(s.fills) :
                open_qty(LegPosition(s.fills, r), LegPosition(s.fills, r + 1))
                  + close_qty(LegPosition(s.fills, r), LegPosition(s.fills, r + 1))
                  = fills[s.fills[r]].quantity
      /\ \A t \in Emitted :
           /\ \A r \in 1..Len(t.fill_indexes) :
                open_qty(LegPosition(t.fill_indexes, r), LegPosition(t.fill_indexes, r + 1))
                  + close_qty(LegPosition(t.fill_indexes, r),
                              LegPosition(t.fill_indexes, r + 1))
                  = fills[t.fill_indexes[r]].quantity
           /\ Closed(t) =>
                /\ PortionSum(OpeningPortion, t.fill_indexes, Len(t.fill_indexes))
                     = PortionSum(ClosingPortion, t.fill_indexes, Len(t.fill_indexes))
                /\ PortionSum(OpeningPortion, t.fill_indexes, Len(t.fill_indexes)) > 0
                /\ t.open_price # None
                /\ t.close_price # None
    )

\* A leg taken through zero by a fill of 2 and closed by a third fill: 2
\* opened and 2 closed in all.
C25_Witness ==
    /\ pc = "done"
    /\ \E t \in Emitted :
         /\ Closed(t)
         /\ Len(t.fill_indexes) = 3
         /\ LegPosition(t.fill_indexes, 2) * LegPosition(t.fill_indexes, 3) < 0
         /\ PortionSum(ClosingPortion, t.fill_indexes, 3) = 2

(* C26: every still-open trade returned by the aggregator is long exactly  *)
(* when the signed quantities of the fills it lists sum to more than zero  *)
(* and short exactly when they sum to less than zero.                      *)
C26_OpenDirectionIsNetSide ==
    pc = "done" =>
        \A t \in Emitted :
            ~Closed(t) =>
                /\ t.direction = "long"
                     <=> SumOver(SignedQuantity, t.fill_indexes, Len(t.fill_indexes)) > 0
                /\ t.direction = "short"
                     <=> SumOver(SignedQuantity, t.fill_indexes, Len(t.fill_indexes)) < 0

-----------------------------------------------------------------------------
(* Two uploads at once *)

\* Both uploads are answered, and each performed its reads before the other
\* committed
BothReadFirst ==
    /\ sessions # << >>
    /\ \A i \in 1..2 : sessions[i].at = "done" /\ sessions[i].commits_seen = 0

OpenParentsOf(st, code) ==
    { q \in st.parents : q.asset_code = code /\ q.close_time = None }

(* C24: when two imports of fills of one instrument both read before       *)
(* either commits and neither carries a fill that is already recorded,     *)
(* both are answered 201; with two buys into an empty store the store      *)
(* then holds two open parent trades for the instrument, which the two     *)
(* imports run one after the other would not leave.                        *)
C24_InterleavedImportsBothSucceed ==
    (/\ BothReadFirst
     /\ \A i \in 1..2 : FlaggedIn(Val(sessions[i].snapshot), sessions[i].fills) = {})
    => /\ \A i \in 1..2 : sessions[i].response.status_code = 201
       /\ (/\ Val(sessions[1].snapshot) = EmptyStore
           /\ \A i \in 1..2 : sessions[i].fills[1].side = "BUY")
          => /\ Cardinality(OpenParentsOf(store, "X")) = 2
             /\ \A first \in 1..2 :
                  Cardinality(OpenParentsOf(
                      StoreOf(sessions[first].fills \o sessions[3 - first].fills), "X")) = 1

-----------------------------------------------------------------------------
(* Uploads one at a time from an empty store *)

\* The instruments with a persisted parent trade
InstrumentsOf(st) == { q.asset_code : q \in st.parents }

-----------------------------------------------------------------------------
(* What one import writes *)

\* The persisted fills the parent owns
OwnedBy(st, q) == { r \in st.fills : r.parent_trade_id = Some(q.id) }

\* The parent row holds the trade's values and owns exactly the fills the
\* trade lists: the loaded rows among them and one row per new fill
WrittenAs(st, q, records, t) ==
    /\ RowOfTrade(q, t)
    /\ Cardinality(OwnedBy(st, q)) = Len(t.fill_indexes)
    /\ \A k \in Elems(t.fill_indexes) :
         IF records[k].kind = "existing"
         THEN \E r \in OwnedBy(st, q) : r.id = Val(records[k].existing_fill).id
         ELSE \E r \in OwnedBy(st, q) : RowOfFill(r, records[k].normalized)

(* C28: an import that has fills to hand on writes its aggregated trades   *)
(* to persisted parent rows, a different row for each trade: every trade   *)
(* has a row of its own that carries its values and owns exactly the fills *)
(* it lists, also when new fills are timestamped between the fills of an   *)
(* existing open parent.                                                   *)
C28_OneParentRowPerTrade ==
    [][ (/\ Handles
         /\ HandedOn(store, request) # << >>
         /\ ~MixesParents(import_run'))
        => LET records == import_run'.combined_records
               trades == import_run'.aggregated_trades
           IN \E row \in [1..Len(trades) -> { q.id : q \in store'.parents }] :
                 /\ \A i \in 1..Len(trades) : \A j \in 1..Len(trades) :
                      row[i] = row[j] => i = j
                 /\ \A j \in 1..Len(trades) :
                      \E q \in store'.parents :
                          q.id = row[j] /\ WrittenAs(store', q, records, trades[j])
      ]_vars

-----------------------------------------------------------------------------
(* A sequence of fills uploaded in two parts *)

\* No two of the fills carry the same non-empty TradeID at the same time
DistinctExecutions(fs) ==
    \A i \in 1..Len(fs) : \A j \in (i + 1)..Len(fs) :
        ~(/\ Truthy(fs[i].source)
          /\ fs[i].source = fs[j].source
          /\ fs[i].trade_time = fs[j].trade_time)

\* The persisted parent is the trade of the fills fs: the values the two have
\* in common apart from the prices, and the rows of the listed fills
SameTrade(st, q, fs, t) ==
    /\ q.asset_code = t.asset_code /\ q.direction = t.direction
    /\ q.quantity = t.quantity /\ q.open_time = t.open_time
    /\ q.close_time = t.close_time
    /\ q.total_commission = t.total_commission
    /\ q.profit_loss = t.profit_loss
    /\ Cardinality(OwnedBy(st, q)) = Len(t.fill_indexes)
    /\ \A k \in Elems(t.fill_indexes) : \E r \in OwnedBy(st, q) : RowOfFill(r, fs[k])

-----------------------------------------------------------------------------
(* What an import leaves alone *)

\* The parents an import of the request may change: the open ones of the
\* instruments of its fills and, in override mode, the owners of the fills
\* matching a flagged candidate
MayChange(st, req, q) ==
    \/ /\ q.close_time = None
       /\ \E i \in 1..Len(req.fills) : req.fills[i].asset_code = q.asset_code
    \/ /\ req.override_duplicates
       /\ q.id \in OwnersOfFlagged(st, req.fills)

====
